---- MODULE Spec2Model ----
(***************************************************************************)
(* Model of app.py, the Streamlit wide->long (melt) transformer.           *)
(*                                                                         *)
(* A Streamlit script is re-executed from top to bottom on every user      *)
(* interaction.  Each action below is one such interaction followed by the *)
(* whole re-execution of the script; the variables are what survives the   *)
(* re-execution (the uploader widget, st.session_state) and the frames and *)
(* messages it left on the page.  What the Run Transform block renders is  *)
(* a function of its frame `work` and of the settings, and is defined as   *)
(* such (Output).                                                          *)
(*                                                                         *)
(* Strings are sequences of one-character strings so that str.strip() and  *)
(* astype(str) are computed, not assumed.  An optional value is a sequence *)
(* of length 0 (None / not rendered) or 1.                                 *)
(***************************************************************************)
EXTENDS Naturals, Sequences, FiniteSets

VARIABLES
    pandas,        \* behaviour of pd.api.types.is_string_dtype in the installed pandas
    session_demo,  \* st.session_state["_demo_df"]: <<>> or <<table>>
    file,          \* the st.file_uploader widget: <<>> or <<[ok, table]>>
    df,            \* the df of the last script run (the preview): <<>> or <<table>>
    read_error,    \* st.error("Error reading file: ...") was shown by the last script run
    config,        \* the widget values read by the last script run if it was
                   \* started by "Run Transform": <<>> or <<cfg>>
    work           \* the frame `work` of that run after the trim loop: <<>> or <<table>>

vars == <<pandas, session_demo, file, df, read_error, config, work>>

\* Largest number of rows of an uploaded table.
MaxRows == 3

(***************************************************************************)
(* Cells                                                                   *)
(***************************************************************************)
NA == [k |-> "na", v |-> <<>>]
Str(s) == [k |-> "str", v |-> s]
Num(s) == [k |-> "num", v |-> s]
False == [k |-> "bool", v |-> <<"F", "a", "l", "s", "e">>]

IsNA(c) == c.k = "na"

\* The characters str.strip() removes, as far as the tables hold any.
Whitespace == {" ", "\t", "\n"}

RECURSIVE LStrip(_)
LStrip(s) == IF s # <<>> /\ Head(s) \in Whitespace THEN LStrip(Tail(s)) ELSE s

RECURSIVE RStrip(_)
RStrip(s) ==
    IF s # <<>> /\ s[Len(s)] \in Whitespace
    THEN RStrip(SubSeq(s, 1, Len(s) - 1))
    ELSE s

\* str.strip()
Strip(s) == RStrip(LStrip(s))

\* One element of Series.astype(str): str(x); a missing value becomes the text "nan".
AsTypeStr(c) == Str(IF IsNA(c) THEN <<"n", "a", "n">> ELSE c.v)

(***************************************************************************)
(* Tables                                                                  *)
(***************************************************************************)
\* The sequence f with every element computed (once).
Elements(f) == SubSeq(f, 1, Len(f))

Column(t, c) == Elements([i \in 1..Len(t.rows) |-> t.rows[i][c]])

Range(s) == {s[i] : i \in 1..Len(s)}

\* build_sample_df()
build_sample_df ==
    [cols |-> <<"data", "col1", "col2", "col3">>,
     rows |-> << [data |-> Str(<<"x">>), col1 |-> Str(<<"p", "x", "1">>),
                  col2 |-> Str(<<"p", "x", "2">>), col3 |-> Str(<<"p", "x", "3">>)],
                 [data |-> Str(<<"y">>), col1 |-> Str(<<"p", "y", "1">>),
                  col2 |-> Str(<<"p", "y", "2">>), col3 |-> Str(<<"p", "y", "3">>)],
                 [data |-> Str(<<"z">>), col1 |-> Str(<<"p", "z", "1">>),
                  col2 |-> Str(<<"p", "z", "2">>), col3 |-> Str(<<"p", "z", "3">>)] >>]

\* The rows an uploaded table is made of.  Between them they hold padded and
\* unpadded strings, the empty string, numeric 0, boolean false, missing
\* cells, and in the column data a value that occurs twice, values whose
\* first-seen order is not their lexicographic order and values that differ
\* only by padding.
UploadCols == <<"data", "col1", "col2">>

UploadRows ==
    { [data |-> Str(<<"b">>),      col1 |-> Str(<<" ", "x">>), col2 |-> Num(<<"0">>)],
      [data |-> Str(<<"a">>),      col1 |-> NA,                col2 |-> Num(<<"1">>)],
      [data |-> Str(<<" ", "a">>), col1 |-> Str(<<>>),         col2 |-> NA],
      [data |-> Str(<<"b">>),      col1 |-> False,             col2 |-> Num(<<"0">>)] }

SeqsUpTo(S, n) == UNION {[1..m -> S] : m \in 0..n}

\* The sequences of up to n elements of S, none of them twice.
Selections(S, n) ==
    {q \in SeqsUpTo(S, n) : \A i, j \in 1..Len(q) : i # j => q[i] # q[j]}

\* What the file loader can hand back for a readable file: a table of up to
\* MaxRows of these rows in any order, or (an empty worksheet) a frame
\* without columns.
UploadTables ==
    {[cols |-> UploadCols, rows |-> r] : r \in Selections(UploadRows, MaxRows)}
        \cup {[cols |-> <<>>, rows |-> <<>>]}

\* The uploader's content as the loader sees it: unreadable, or a table.
Files ==
    {[ok |-> FALSE, table |-> [cols |-> <<>>, rows |-> <<>>]]}
        \cup {[ok |-> TRUE, table |-> t] : t \in UploadTables}

(***************************************************************************)
(* Frames are Python objects: a script run holds them in a heap, and a     *)
(* name (demo_df, the session entry, df, work) is a reference into it.     *)
(***************************************************************************)
Objects == {"demo_df", "session", "df", "work"}

NoFrame == [cols |-> <<>>, rows |-> <<>>]

\* A plain assignment instead: a second name for the object `src`.
FrameCopyAlias(h, src, dst) == [heap |-> h, ref |-> src]

\* DataFrame.copy(): a new object `dst` with the cells of `src`.
FrameCopy(h, src, dst) == [heap |-> [h EXCEPT ![dst] = h[src]], ref |-> dst]

(***************************************************************************)
(* The pandas operations the Run Transform block calls                     *)
(***************************************************************************)
\* The dtype pandas infers for a column when the table is built or parsed:
\* numbers with or without missing cells are numeric, booleans are bool,
\* anything else (strings, mixtures, a column of no rows) is object.
ColumnDtype(t, c) ==
    IF Len(t.rows) = 0 THEN "object"
    ELSE IF \A i \in 1..Len(t.rows) : t.rows[i][c].k \in {"num", "na"} THEN "float64"
    ELSE IF \A i \in 1..Len(t.rows) : t.rows[i][c].k = "bool" THEN "bool"
    ELSE "object"

\* pd.api.types.is_string_dtype(work[c]).  The script pins no pandas version:
\* before pandas 2 every object column is a string column ("legacy"); since
\* pandas 2 an object column is one only if every element is a str ("strict",
\* a missing cell disqualifies the column, a column of no rows qualifies).
IsStringDtype(t, c, mode) ==
    /\ ColumnDtype(t, c) = "object"
    /\ \/ mode = "legacy"
       \/ \A i \in 1..Len(t.rows) : t.rows[i][c].k = "str"

\* work[c].astype(str).str.strip(), one element
StripCell(c) == Str(Strip(AsTypeStr(c).v))

\* for c in work.columns: if is_string_dtype(work[c]): work[c] = ...
StripWs(t, mode) ==
    LET string_cols == {c \in Range(t.cols) : IsStringDtype(t, c, mode)}
    IN  [t EXCEPT !.rows =
            Elements([i \in 1..Len(t.rows) |->
                [c \in DOMAIN t.rows[i] |->
                    IF c \in string_cols THEN StripCell(t.rows[i][c])
                    ELSE t.rows[i][c]]])]

\* pd.melt raises KeyError for an id or value column the frame does not have.
MeltRaises(t, id_col, value_cols) ==
    \/ id_col \notin Range(t.cols)
    \/ \E j \in 1..Len(value_cols) : value_cols[j] \notin Range(t.cols)

\* A melt that goes through the frame row by row instead.
MeltRowMajor(t, id_col, value_cols) ==
    LET n == Len(t.rows)
        m == Len(value_cols)
    IN  Elements([k \in 1..(n * m) |->
            LET i == ((k - 1) \div m) + 1
                j == ((k - 1) % m) + 1
            IN  [id |-> t.rows[i][id_col], var |-> value_cols[j],
                 val |-> t.rows[i][value_cols[j]], src |-> i]])

\* pd.melt(work, id_vars=[id_col], value_vars=value_cols, ...): the frame's
\* rows are repeated once per value column, one value column after the other.
\* `src` is the position of the source row; it is no column of the frame and
\* no operation reads it (melt numbers its rows 0..n*m-1, from which it follows).
Melt(t, id_col, value_cols) ==
    LET n == Len(t.rows)
        m == Len(value_cols)
    IN  Elements([k \in 1..(n * m) |->
            LET j == ((k - 1) \div n) + 1
                i == ((k - 1) % n) + 1
            IN  [id |-> t.rows[i][id_col], var |-> value_cols[j],
                 val |-> t.rows[i][value_cols[j]], src |-> i]])

\* melted.dropna(subset=[value_name])
DropNa(rows) == SelectSeq(rows, LAMBDA r : ~IsNA(r.val))

\* Series.drop_duplicates(keep="last") instead.
DropDuplicatesKeepLast(s) ==
    LET last == {i \in 1..Len(s) : \A j \in (i + 1)..Len(s) : s[j] # s[i]}
    IN  Elements([k \in 1..Cardinality(last) |->
            s[CHOOSE i \in last : Cardinality({j \in last : j <= i}) = k]])

\* Series.drop_duplicates(): the first occurrence of each value, in order
\* (missing values are duplicates of each other).
DropDuplicates(s) ==
    LET first == {i \in 1..Len(s) : \A j \in 1..(i - 1) : s[j] # s[i]}
    IN  Elements([k \in 1..Cardinality(first) |->
            s[CHOOSE i \in first : Cardinality({j \in first : j <= i}) = k]])

\* A constructor that also refuses an empty list of categories.
CategoricalRaisesOnEmpty(cats) == cats = <<>> \/ \E i \in 1..Len(cats) : IsNA(cats[i])

\* pd.Categorical(values, categories=cats, ordered=True) raises ValueError
\* ("Categorical categories cannot be null") for a missing category.
CategoricalRaises(cats) == \E i \in 1..Len(cats) : IsNA(cats[i])

\* The code of a value in an ordered categorical: its position in the categories.
Code(cats, x) == CHOOSE i \in 1..Len(cats) : cats[i] = x

\* Python's order on the column names of the tables (code-point order of str).
NameOrder == <<"col1", "col2", "col3", "data">>

StrLess(a, b) ==
    (CHOOSE i \in 1..Len(NameOrder) : NameOrder[i] = a)
        < (CHOOSE i \in 1..Len(NameOrder) : NameOrder[i] = b)

\* The order of sort_values([id_col]) alone, on rows as below.
SortKeyLessIdOnly(a, b) == a.id[1] < b.id[1]

\* The order of sort_values([id_col, var_name]) on two rows whose id is
\* given by its category code: the code, then the variable name.
SortKeyLess(a, b) ==
    \/ a.id[1] < b.id[1]
    \/ a.id[1] = b.id[1] /\ StrLess(a.var, b.var)

\* melted.sort_values([id_col, var_name]).reset_index(drop=True): a row moves
\* behind the rows with a smaller key and behind the earlier rows with an
\* equal key (the sort is stable).
SortValues(cats, rows) ==
    LET n == Len(rows)
        code == Elements([i \in 1..n |-> Code(cats, rows[i].id)])
        keyed == Elements([i \in 1..n |-> [rows[i] EXCEPT !.id = <<code[i]>>]])
        pos == Elements([i \in 1..n |->
                   1 + Cardinality({j \in 1..n :
                         \/ SortKeyLess(keyed[j], keyed[i])
                         \/ j < i /\ ~SortKeyLess(keyed[i], keyed[j])})])
    IN  Elements([p \in 1..n |-> rows[CHOOSE i \in 1..n : pos[i] = p]])

\* melted[id_col].nunique(): distinct ids, missing ones not counted
NUnique(rows) == Cardinality({rows[i].id : i \in 1..Len(rows)} \ {NA})

(***************************************************************************)
(* The widgets of "2) Transform Settings"                                  *)
(***************************************************************************)
\* The values the widgets can hold for a table: the id column is one of its
\* columns, the columns to unpivot are picked among the others (st.multiselect
\* returns them in the order they were picked), the two output names keep
\* their defaults, the three checkboxes are free.
Configs(t) ==
    UNION {
        {[id_col |-> ic, value_cols |-> vc, var_name |-> "column", value_name |-> "value",
          dropna |-> dn, strip_ws |-> sw, keep_order |-> ko] :
            vc \in Selections(Range(t.cols) \ {ic}, Len(t.cols)),
            dn \in BOOLEAN, sw \in BOOLEAN, ko \in BOOLEAN} :
        ic \in Range(t.cols)}

(***************************************************************************)
(* One execution of the script up to the try block.  sess and f are what   *)
(* the session and the uploader hold when it starts, click says whether    *)
(* "Use this sample" was pressed, go is <<>> or <<cfg>>: whether "Run      *)
(* Transform" was pressed and with which widget values.                    *)
(***************************************************************************)
Script(mode, sess, f, click, go) ==
    LET h0 == [o \in Objects |-> NoFrame]
        h1 == [h0 EXCEPT !["demo_df"] = build_sample_df,
                         !["session"] = IF sess # <<>> THEN sess[1] ELSE NoFrame]
        \* if st.button("Use this sample"): session_state["_demo_df"] = demo_df.copy()
        c1 == IF click THEN FrameCopy(h1, "demo_df", "session")
              ELSE [heap |-> h1, ref |-> "session"]
        sref == IF click \/ sess # <<>> THEN <<c1.ref>> ELSE <<>>
        \* the file is parsed, or the read fails and st.error reports it
        loaded == f # <<>> /\ f[1].ok
        failed == f # <<>> /\ ~f[1].ok
        \* if df is None and "_demo_df" in st.session_state: df = ....copy()
        c2 == IF loaded THEN [heap |-> [c1.heap EXCEPT !["df"] = f[1].table], ref |-> "df"]
              ELSE IF sref # <<>> THEN FrameCopy(c1.heap, sref[1], "df")
              ELSE [heap |-> c1.heap, ref |-> "df"]
        dref == IF loaded \/ sref # <<>> THEN <<c2.ref>> ELSE <<>>
        \* if go: work = df.copy(); the trim loop
        c3 == IF go # <<>> THEN FrameCopy(c2.heap, dref[1], "work")
              ELSE [heap |-> c2.heap, ref |-> "work"]
        h3 == IF go # <<>> /\ go[1].strip_ws
              THEN [c3.heap EXCEPT ![c3.ref] = StripWs(@, mode)]
              ELSE c3.heap
    IN  [session_demo |-> IF sref = <<>> THEN <<>> ELSE <<h3[sref[1]]>>,
         df |-> IF dref = <<>> THEN <<>> ELSE <<h3[dref[1]]>>,
         work |-> IF go = <<>> THEN <<>> ELSE <<h3[c3.ref]>>,
         read_error |-> failed]

Rerun(f, click, go) ==
    LET s == Script(pandas, session_demo, f, click, go)
    IN  /\ file' = f
        /\ session_demo' = s.session_demo
        /\ df' = s.df
        /\ read_error' = s.read_error
        /\ config' = go
        /\ work' = s.work
        /\ UNCHANGED pandas

(***************************************************************************)
(* The rest of a run started by "Run Transform": the check of value_cols,  *)
(* the try block (melt, dropna, keep-order sort) and what is rendered      *)
(* after it.  It reads `work` and the widget values and nothing else.      *)
(***************************************************************************)
Rendered(o, rows, cfg) ==
    [outcome |-> o,
     result |-> IF o = "success"
                THEN <<[columns |-> <<cfg.id_col, cfg.var_name, cfg.value_name>>,
                        rows |-> rows]>>
                ELSE <<>>,
     downloads |-> IF o = "success"
                   THEN {"transformed_long.csv", "transformed_long.xlsx",
                         "transformed_long.json"}
                   ELSE {},
     kpi |-> IF o = "success"
             THEN <<[rows |-> Len(rows), unique_ids |-> NUnique(rows),
                     variables |-> Len(cfg.value_cols)]>>
             ELSE <<>>]

Transform(w, cfg) ==
    IF MeltRaises(w, cfg.id_col, cfg.value_cols) THEN Rendered("error", <<>>, cfg)
    ELSE
        LET melted == Melt(w, cfg.id_col, cfg.value_cols)
            kept == IF cfg.dropna THEN DropNa(melted) ELSE melted
            cats == DropDuplicates(Column(w, cfg.id_col))
        IN  IF ~cfg.keep_order THEN Rendered("success", kept, cfg)
            ELSE IF CategoricalRaises(cats) THEN Rendered("error", <<>>, cfg)
            ELSE Rendered("success", SortValues(cats, kept), cfg)

\* A check of value_cols that never stops the run.
NoValueColsSkipped(value_cols) == FALSE

\* if not value_cols: st.warning(...); st.stop()
NoValueCols(value_cols) == value_cols = <<>>

\* What the last script run rendered below the settings:
\*   outcome    "idle" (Run Transform was not pressed), "warning" (st.warning
\*              and st.stop), "success" or "error" (st.error in the except)
\*   result     the `melted` frame shown as "Output (Long)": <<>> or <<frame>>
\*   downloads  the download buttons
\*   kpi        the quick stats: <<>> or <<[rows, unique_ids, variables]>>
Output ==
    IF config = <<>> THEN Rendered("idle", <<>>, <<>>)
    ELSE IF NoValueCols(config[1].value_cols) THEN Rendered("warning", <<>>, config[1])
    ELSE Transform(work[1], config[1])

(***************************************************************************)
(* The state machine                                                       *)
(***************************************************************************)
\* The first execution of the script: nothing uploaded, an empty session.
Init ==
    /\ pandas \in {"legacy", "strict"}
    /\ session_demo = <<>>
    /\ file = <<>>
    /\ df = <<>>
    /\ read_error = FALSE
    /\ config = <<>>
    /\ work = <<>>

\* The user presses "Use this sample".
UseSample == Rerun(file, TRUE, <<>>)

\* The user puts a file into the uploader.
Upload == \E f \in Files : Rerun(<<f>>, FALSE, <<>>)

\* The user removes the file from the uploader.
RemoveFile == file # <<>> /\ Rerun(<<>>, FALSE, <<>>)

\* The user changes one of the settings widgets, which exist only below a
\* table that has columns: the script runs again with the button not pressed.
ChangeSetting ==
    /\ df # <<>>
    /\ df[1].cols # <<>>
    /\ Rerun(file, FALSE, <<>>)

\* The user presses "Run Transform" with the settings cfg.  The settings are
\* those of the widgets at that moment: reaching them took interactions that
\* each ran the script with the button not pressed, so the press follows a
\* run that rendered no output (pressing the button again without touching a
\* setting repeats the same run and changes nothing).
RunTransform ==
    /\ df # <<>>
    /\ df[1].cols # <<>>
    /\ config = <<>>
    /\ \E cfg \in Configs(df[1]) : Rerun(file, FALSE, <<cfg>>)

Next == UseSample \/ Upload \/ RemoveFile \/ ChangeSetting \/ RunTransform

Spec == Init /\ [][Next]_vars

(***************************************************************************)
(* Vocabulary of the properties                                            *)
(***************************************************************************)
\* The last script run was started by "Run Transform".
Ran == config # <<>>

\* ... with a configuration that passes validation: value_cols is not empty
\* (the widgets offer nothing else that is invalid).
RanValid == Ran /\ config[1].value_cols # <<>>

InvalidConfig(cfg, t) ==
    \/ cfg.value_cols = <<>>
    \/ cfg.id_col \notin Range(t.cols)
    \/ \E j \in 1..Len(cfg.value_cols) :
          cfg.value_cols[j] = cfg.id_col \/ cfg.value_cols[j] \notin Range(t.cols)

\* The table the script loaded: the uploaded one, or else the sample.
LoadedTable == IF file # <<>> /\ file[1].ok THEN file[1].table ELSE build_sample_df

\* The position of name c in the list vc.
PosIn(vc, c) == CHOOSE j \in 1..Len(vc) : vc[j] = c

\* The row of the first occurrence of x in column c of t.
FirstOcc(t, c, x) ==
    CHOOSE i \in 1..Len(t.rows) :
        t.rows[i][c] = x /\ \A j \in 1..(i - 1) : t.rows[j][c] # x

\* Rows of id A come before rows of id B whenever A is first seen before B
\* in column c of t.
GroupedByFirstSeen(rows, t, c) ==
    \A p, q \in 1..Len(rows) :
        \A a, b \in Range(Column(t, c)) :
            (rows[p].id = a /\ rows[q].id = b /\ FirstOcc(t, c, a) < FirstOcc(t, c, b))
                => p < q

\* The (row, value column) cells of t that are missing.
MissingCells(t, vc) ==
    {ij \in (1..Len(t.rows)) \X (1..Len(vc)) : IsNA(t.rows[ij[1]][vc[ij[2]]])}

\* Every cell of column c of t is a string or missing.
StringOrNullColumn(t, c) == \A i \in 1..Len(t.rows) : t.rows[i][c].k \in {"str", "na"}

(***************************************************************************)
(* C1: a run with a valid configuration returns a Result whose row count   *)
(* is rows * value columns, minus the missing (row, value column) cells    *)
(* when drop_na is set; also for a table with a missing id.                *)
(***************************************************************************)
C1_RowCount ==
    RanValid =>
        LET o == Output
            t == df[1]
            vc == config[1].value_cols
        IN  /\ o.outcome = "success"
            /\ Len(o.result[1].rows) =
                   Len(t.rows) * Len(vc)
                     - (IF config[1].dropna THEN Cardinality(MissingCells(t, vc)) ELSE 0)

(***************************************************************************)
(* C2: with preserve_id_order, if id A is first seen before id B in the    *)
(* source table then every Result row of A precedes every Result row of B. *)
(***************************************************************************)
C2_OrderBySourceTable ==
    (Ran /\ config[1].keep_order /\ Output.outcome = "success")
        => GroupedByFirstSeen(Output.result[1].rows, df[1], config[1].id_col)

\* C2 as amended: the same, with "first seen" read in the table as it is
\* melted, that is after trim_whitespace has normalised the ids.
C2_OrderByMeltedTable ==
    (Ran /\ config[1].keep_order /\ Output.outcome = "success")
        => GroupedByFirstSeen(Output.result[1].rows, work[1], config[1].id_col)

\* A keep-order run over ids b, a, b: a duplicate id whose rows melt apart
\* and whose first-seen order is not the lexicographic one.
C2_Witness ==
    /\ Ran /\ config[1].keep_order /\ Output.outcome = "success"
    /\ config[1].id_col = "data" /\ Len(config[1].value_cols) = 2
    /\ ~config[1].dropna
    /\ Len(work[1].rows) = 3
    /\ work[1].rows[1].data = Str(<<"b">>)
    /\ work[1].rows[2].data = Str(<<"a">>)
    /\ work[1].rows[3].data = Str(<<"b">>)
    /\ Len(Output.result[1].rows) = 6

(***************************************************************************)
(* C3: with drop_na, a (source row, value column) pair is absent from the  *)
(* Result exactly if the source cell is missing, whatever trim_whitespace  *)
(* and preserve_id_order are.                                              *)
(***************************************************************************)
C3_DroppedIffMissing ==
    (RanValid /\ config[1].dropna /\ Output.outcome = "success") =>
        LET rows == Output.result[1].rows
            vc == config[1].value_cols
        IN  \A i \in 1..Len(df[1].rows), j \in 1..Len(vc) :
                (\E p \in 1..Len(rows) : rows[p].src = i /\ rows[p].var = vc[j])
                    <=> ~IsNA(df[1].rows[i][vc[j]])

(***************************************************************************)
(* C4: after a failed read of the uploaded file no table is available and  *)
(* no Run Transform produces a Result, also when the sample is stored in   *)
(* the session.                                                            *)
(***************************************************************************)
C4_FailedReadBlocksPipeline ==
    read_error => (df = <<>> /\ Output.result = <<>>)

(***************************************************************************)
(* C5: a run with an invalid configuration reports an error and produces   *)
(* no Result, no export payloads and no summary statistics, and leaves the *)
(* loaded table unmodified.                                                *)
(***************************************************************************)
C5_InvalidConfigAborts ==
    (Ran /\ InvalidConfig(config[1], LoadedTable)) =>
        LET o == Output
        IN  /\ o.outcome = "warning"
            /\ o.result = <<>>
            /\ o.downloads = {}
            /\ o.kpi = <<>>
            /\ df = <<LoadedTable>>

\* A run without value columns, with trimming on, over a table that has
\* padded cells.
C5_Witness ==
    /\ Ran /\ config[1].value_cols = <<>> /\ config[1].strip_ws
    /\ Output.outcome = "warning"
    /\ work # df

(***************************************************************************)
(* C6: a run of the transform never modifies the table it was given: the   *)
(* loaded table and the session's sample are the same before and after     *)
(* every Run Transform.                                                    *)
(***************************************************************************)
C6_RunLeavesInputAlone ==
    [][config' # <<>> => (df' = df /\ session_demo' = session_demo)]_vars

\* A run whose trimming changed cells of its copy, with the sample stored.
C6_Witness ==
    /\ Ran /\ config[1].strip_ws
    /\ work # df
    /\ session_demo # <<>>
    /\ Output.outcome = "success"

C8_VariablesInConfiguredOrder ==
    (Ran /\ config[1].keep_order /\ Output.outcome = "success") =>
        LET rows == Output.result[1].rows
            vc == config[1].value_cols
        IN  \A p, q \in 1..Len(rows) :
                (p < q /\ rows[p].id = rows[q].id)
                    => PosIn(vc, rows[p].var) <= PosIn(vc, rows[q].var)

\* C8 as amended: Result rows of the same id are ordered by the
\* lexicographic order of their variable names.
C8_VariablesInNameOrder ==
    (Ran /\ config[1].keep_order /\ Output.outcome = "success") =>
        LET rows == Output.result[1].rows
        IN  \A p, q \in 1..Len(rows) :
                (p < q /\ rows[p].id = rows[q].id) => ~StrLess(rows[q].var, rows[p].var)

\* A keep-order run with value_columns = [col2, col1] that yields both
\* variables for one id.
C8_Witness ==
    /\ Ran /\ config[1].keep_order /\ Output.outcome = "success"
    /\ config[1].value_cols = <<"col2", "col1">>
    /\ \E p, q \in 1..Len(Output.result[1].rows) :
          /\ p < q
          /\ Output.result[1].rows[p].id = Output.result[1].rows[q].id
          /\ Output.result[1].rows[p].var = "col1"
          /\ Output.result[1].rows[q].var = "col2"

(***************************************************************************)
(* C9: without preserve_id_order the Result rows are in source-row-major,  *)
(* value_columns-minor order.                                              *)
(***************************************************************************)
C9_RowMajor ==
    (Ran /\ ~config[1].keep_order /\ Output.outcome = "success") =>
        LET rows == Output.result[1].rows
            vc == config[1].value_cols
        IN  \A p, q \in 1..Len(rows) :
                p < q =>
                    \/ rows[p].src < rows[q].src
                    \/ /\ rows[p].src = rows[q].src
                       /\ PosIn(vc, rows[p].var) < PosIn(vc, rows[q].var)

\* C9 as amended: the Result rows are in value_columns-major, source-row-minor
\* order (all rows of the first configured value column in source order, then
\* those of the second, and so on, dropped rows removed).
C9_ColumnMajor ==
    (Ran /\ ~config[1].keep_order /\ Output.outcome = "success") =>
        LET rows == Output.result[1].rows
            vc == config[1].value_cols
        IN  \A p, q \in 1..Len(rows) :
                p < q =>
                    \/ PosIn(vc, rows[p].var) < PosIn(vc, rows[q].var)
                    \/ /\ rows[p].var = rows[q].var
                       /\ rows[p].src < rows[q].src

\* A run without keep-order over at least two source rows and two value
\* columns, one cell dropped.
C9_Witness ==
    /\ Ran /\ ~config[1].keep_order /\ config[1].dropna
    /\ Output.outcome = "success"
    /\ Len(df[1].rows) = 3
    /\ config[1].value_cols = <<"col2", "col1">>
    /\ Len(Output.result[1].rows) = 5

(***************************************************************************)
(* C10: with trim_whitespace, in every column whose values are all strings *)
(* or null each string is replaced by its stripped form and each null      *)
(* stays null; the other columns are untouched.                            *)
(***************************************************************************)
C10_TrimKeepsNull ==
    (Ran /\ config[1].strip_ws) =>
        \A c \in Range(df[1].cols) :
            \A i \in 1..Len(df[1].rows) :
                work[1].rows[i][c] =
                    IF StringOrNullColumn(df[1], c) /\ ~IsNA(df[1].rows[i][c])
                    THEN Str(Strip(df[1].rows[i][c].v))
                    ELSE df[1].rows[i][c]

====
